---- MODULE Spec2Model ----
(***************************************************************************)
(* Model of the PoseDetection React component                              *)
(* (pose-detection-app/src/components/PoseDetection.tsx).                   *)
(*                                                                         *)
(* The state is that of ONE component instance from its mount to after its *)
(* unmount: the `error` state cell, the position of the initialization run *)
(* (permission check -> model load -> capture), the media streams the      *)
(* browser handed out, the video element, the overlay canvas' 2D context   *)
(* and the frame loop (estimatePoses calls in flight, animation-frame      *)
(* callbacks queued).  Each action is one JavaScript job: the continuation *)
(* of a settled promise, an animation-frame callback, a click, or a change *)
(* made by the browser.                                                    *)
(***************************************************************************)
EXTENDS Integers, Sequences, FiniteSets, TLC

----------------------------------------------------------------------------
(* Bounds of the model *)

\* Retry clicks explored in one behaviour.
MaxRetries == 1
\* Largest number of tracks a stream returned by getUserMedia carries.
MaxTracks == 2

----------------------------------------------------------------------------
(* Program constants *)

\* HTMLMediaElement.HAVE_ENOUGH_DATA, the literal tested by detectPose.
HAVE_ENOUGH_DATA == 4

\* useState<string | null>(null): the value null.
NoError == "null"

\* The message texts, verbatim.
GenericCameraMsg == "An error occurred while accessing the camera."
NotAllowedMsg == "Camera access was denied. Please allow camera access and try again."
NotFoundMsg == "No camera device found. Please ensure a camera is connected and try again."
AbortMsg == "The fetching process for the media resource was aborted. Please try again."
NotReadableMsg == "The media device is not readable. Please check your camera and try again."
OverconstrainedMsg == "The constraints specified are not supported by the device. Please check your camera settings and try again."
SecurityMsg == "Security error while accessing the camera. Please check your browser settings and try again."
ModelLoadMsg == "Error loading the MoveNet model."
PermissionDeniedMsg == "Camera access is denied. Please enable camera permissions in your browser settings."
PermissionCheckMsg == "Unable to check camera permissions. Please try again."

\* The six error names handleError tells apart.
NamedErrors == {"NotAllowedError", "NotFoundError", "AbortError",
                "NotReadableError", "OverconstrainedError", "SecurityError"}

\* error.name of the values a rejected getUserMedia / play may carry: the six
\* named ones, and two that handleError does not name ("Error" is also the
\* name of the `new Error('Failed to get canvas context')` of startVideoStream).
ErrorNames == NamedErrors \cup {"TypeError", "Error"}

\* PermissionStatus.state
PermissionStates == {"granted", "prompt", "denied"}

\* video.readyState: HAVE_NOTHING, HAVE_FUTURE_DATA and HAVE_ENOUGH_DATA.  The
\* component tells HAVE_ENOUGH_DATA from the rest, and play() resolves from
\* HAVE_FUTURE_DATA on; the two values left out behave as HAVE_NOTHING.
ReadyStates == {0, 3, HAVE_ENOUGH_DATA}

\* video.videoWidth once a stream is attached (it may change, e.g. on rotation)
VideoWidths == {2, 3}

----------------------------------------------------------------------------
VARIABLES
    mounted,      \* the component is mounted (videoRef/canvasRef.current set)
    error,        \* the `error` state cell (last value given to setError)
    pc,           \* position of the current initialization run
    lastStep,     \* history: the job that ran last
    lastErr,      \* history: error.name last given to handleError ("none")
    readyState,   \* video.readyState
    videoWidth,   \* video.videoWidth
    canvasWidth,  \* canvas.width
    ctxTransform, \* current transform of the 2D context, x |-> a*x + e
    ctxStack,     \* the context's stack of saved drawing states
    estimating,   \* detector.estimatePoses calls in flight
    rafQueue,     \* detectPose callbacks queued by requestAnimationFrame
    probeTracks,  \* tracks of the stream of the permission-probing request
    streams,      \* the capture streams obtained by startVideoStream
    srcObject,    \* video.srcObject: index into streams, 0 for null
    retries,      \* Retry clicks so far
    poses,        \* what detector.estimatePoses resolves with (the scene filmed)
    canvas        \* what is painted on the overlay: the drawing calls, in order

vars == <<mounted, error, pc, lastStep, lastErr, readyState, videoWidth,
          canvasWidth, ctxTransform, ctxStack, estimating, rafQueue,
          probeTracks, streams, srcObject, retries, poses, canvas>>

\* Variable groups, for UNCHANGED.
videoVars == <<readyState, videoWidth>>
ctxVars == <<canvasWidth, ctxTransform, ctxStack>>
loopVars == <<estimating, rafQueue>>
streamVars == <<probeTracks, streams, srcObject>>
drawVars == <<poses, canvas>>

----------------------------------------------------------------------------
(* The 2D context *)

\* The default transform of a context.
Identity == [a |-> 1, e |-> 0]

\* ctx.scale(-1, 1): x |-> a*(-x) + e
Scale(t) == [a |-> 0 - t.a, e |-> t.e]

\* ctx.translate(dx, 0): x |-> a*(x + dx) + e
Translate(t, dx) == [a |-> t.a, e |-> t.e + t.a * dx]

\* The mirror of a surface w wide: x |-> w - x
Mirror(w) == [a |-> 0 - 1, e |-> w]

\* A stream of n tracks, all in the state s.
Tracks(n, s) == [i \in 1..n |-> s]

\* stream.getTracks().forEach(track => track.stop())
StopAll(ts) == [i \in 1..Len(ts) |-> "ended"]

AllEnded(ts) == \A i \in 1..Len(ts) : ts[i] = "ended"

----------------------------------------------------------------------------
(* Poses and their rendering *)

\* A pose is the sequence pose.keypoints; a keypoint is a record with the
\* fields name, x, y and, when the estimator gave one, score.  Scores are in
\* hundredths: 51 stands for 0.51.

\* keypoint.score > 0.5
ScoreThreshold == 50

\* shoulderDiff < 20 && hipDiff < 20
AngleTolerance == 20

\* The names the component looks up, and "nose", which it never looks up.
KeypointNames ==
    <<"nose", "left_shoulder", "right_shoulder", "left_elbow", "right_elbow",
      "left_wrist", "right_wrist", "left_hip", "right_hip", "left_knee",
      "right_knee", "left_ankle", "right_ankle">>

keypointPairs ==
    << <<"left_shoulder", "right_shoulder">>,
       <<"left_hip", "right_hip">>,
       <<"left_shoulder", "left_elbow">>,
       <<"left_elbow", "left_wrist">>,
       <<"right_shoulder", "right_elbow">>,
       <<"right_elbow", "right_wrist">>,
       <<"left_hip", "left_knee">>,
       <<"left_knee", "left_ankle">>,
       <<"right_hip", "right_knee">>,
       <<"right_knee", "right_ankle">> >>

\* Math.abs
Abs(n) == IF n < 0 THEN 0 - n ELSE n

\* pose.keypoints.find(kp => kp.name === name): the index of the first
\* keypoint of that name, 0 for undefined.
find(pose, name) ==
    LET named == {i \in 1..Len(pose) : pose[i].name = name}
    IN  IF named = {} THEN 0
        ELSE CHOOSE i \in named : \A j \in named : i <= j

\* isPerfectAngle with <= in place of <.
isPerfectAngle_Inclusive(pose) ==
    LET leftShoulder == find(pose, "left_shoulder")
        rightShoulder == find(pose, "right_shoulder")
        leftHip == find(pose, "left_hip")
        rightHip == find(pose, "right_hip")
    IN  IF leftShoulder # 0 /\ rightShoulder # 0 /\ leftHip # 0 /\ rightHip # 0
        THEN /\ Abs(pose[leftShoulder].y - pose[rightShoulder].y) <= AngleTolerance
             /\ Abs(pose[leftHip].y - pose[rightHip].y) <= AngleTolerance
        ELSE FALSE

isPerfectAngle(pose) ==
    LET leftShoulder == find(pose, "left_shoulder")
        rightShoulder == find(pose, "right_shoulder")
        leftHip == find(pose, "left_hip")
        rightHip == find(pose, "right_hip")
    IN  IF leftShoulder # 0 /\ rightShoulder # 0 /\ leftHip # 0 /\ rightHip # 0
        THEN /\ Abs(pose[leftShoulder].y - pose[rightShoulder].y) < AngleTolerance
             /\ Abs(pose[leftHip].y - pose[rightHip].y) < AngleTolerance
        ELSE FALSE

\* const color = isPerfect ? 'green' : 'red'
Color(pose) == IF isPerfectAngle(pose) THEN "green" ELSE "red"

\* keypoint.score !== undefined && keypoint.score > 0.5
Confident(kp) == "score" \in DOMAIN kp /\ kp.score > ScoreThreshold

\* ctx.arc(keypoint.x, keypoint.y, 5, 0, 2 * Math.PI); fillStyle; fill()
Dot(kp, color) ==
    [shape |-> "dot", x |-> kp.x, y |-> kp.y, color |-> color]

\* drawLine(ctx, from, to, color)
drawLine(from, to, color) ==
    [shape |-> "line", x |-> from.x, y |-> from.y,
     toX |-> to.x, toY |-> to.y, color |-> color]

\* Confident with >= 0.5 in place of > 0.5.
Drawable_Inclusive(kp) == "score" \in DOMAIN kp /\ kp.score >= ScoreThreshold

\* The test of the keypoints loop: is a dot painted on the keypoint?
Drawable(kp) == Confident(kp)

\* pose.keypoints.forEach(keypoint => { if (...) { arc; fill } }), from the
\* k-th keypoint on.
RECURSIVE DrawKeypointsFrom(_, _, _)
DrawKeypointsFrom(pose, color, k) ==
    IF k > Len(pose) THEN <<>>
    ELSE (IF Drawable(pose[k]) THEN <<Dot(pose[k], color)>> ELSE <<>>)
             \o DrawKeypointsFrom(pose, color, k + 1)

DrawKeypoints(pose, color) == DrawKeypointsFrom(pose, color, 1)

\* Joined asking only the first endpoint for its score.
Joined_FromOnly(pose, fromName, toName) ==
    /\ find(pose, fromName) # 0
    /\ find(pose, toName) # 0
    /\ Confident(pose[find(pose, fromName)])

\* The test of the pairs loop: fromKeypoint && toKeypoint && both scores
\* defined and > 0.5.
Joined(pose, fromName, toName) ==
    /\ find(pose, fromName) # 0
    /\ find(pose, toName) # 0
    /\ Confident(pose[find(pose, fromName)])
    /\ Confident(pose[find(pose, toName)])

\* keypointPairs.forEach(([fromName, toName]) => { ... drawLine ... }), from
\* the e-th pair on.
RECURSIVE DrawLinesFrom(_, _, _)
DrawLinesFrom(pose, color, e) ==
    IF e > Len(keypointPairs) THEN <<>>
    ELSE (IF Joined(pose, keypointPairs[e][1], keypointPairs[e][2])
          THEN <<drawLine(pose[find(pose, keypointPairs[e][1])],
                          pose[find(pose, keypointPairs[e][2])], color)>>
          ELSE <<>>)
             \o DrawLinesFrom(pose, color, e + 1)

DrawLines(pose, color) == DrawLinesFrom(pose, color, 1)

\* The body of poses.forEach for one pose, in the colour given.
DrawPose(pose, color) == DrawKeypoints(pose, color) \o DrawLines(pose, color)

\* poses.forEach with the colour worked out once, from the first pose.
RECURSIVE DrawPosesFrom_OneColor(_, _)
DrawPosesFrom_OneColor(ps, i) ==
    IF i > Len(ps) THEN <<>>
    ELSE DrawPose(ps[i], Color(ps[1])) \o DrawPosesFrom_OneColor(ps, i + 1)

\* poses.forEach(pose => { ... }), from the i-th pose on.
RECURSIVE DrawPosesFrom(_, _)
DrawPosesFrom(ps, i) ==
    IF i > Len(ps) THEN <<>>
    ELSE DrawPose(ps[i], Color(ps[i])) \o DrawPosesFrom(ps, i + 1)

\* What the tick paints after clearRect.
DrawPoses(ps) == DrawPosesFrom(ps, 1)

----------------------------------------------------------------------------
(* The scenes filmed: what the estimator may resolve with *)

\* Keypoints changed or removed, per person, in the rendering scenes.
MaxEdits == 1

\* The y of a keypoint of a person standing level.
BaseY(name) ==
    CASE name = "nose" -> 50
      [] name \in {"left_shoulder", "right_shoulder"} -> 100
      [] name \in {"left_elbow", "right_elbow"} -> 150
      [] name \in {"left_wrist", "right_wrist", "left_hip", "right_hip"} -> 200
      [] name \in {"left_knee", "right_knee"} -> 300
      [] OTHER -> 400

\* A person standing level, every keypoint just above the threshold; x0
\* places the person, so that no two keypoints of a scene share an x.
BasePose(x0) ==
    [k \in 1..Len(KeypointNames) |->
        [name |-> KeypointNames[k], x |-> x0 + k,
         y |-> BaseY(KeypointNames[k]), score |-> ScoreThreshold + 1]]

TorsoNames == {"left_shoulder", "right_shoulder", "left_hip", "right_hip"}

\* The pose without its k-th keypoint.
Remove(pose, k) == SubSeq(pose, 1, k - 1) \o SubSeq(pose, k + 1, Len(pose))

\* The pose with the score of its k-th keypoint set to s.
WithScore(pose, k, s) ==
    [pose EXCEPT ![k] = [name |-> @.name, x |-> @.x, y |-> @.y, score |-> s]]

\* The pose with its k-th keypoint carrying no score.
WithoutScore(pose, k) ==
    [pose EXCEPT ![k] = [name |-> @.name, x |-> @.x, y |-> @.y]]

\* The pose with its k-th keypoint moved down by dy.
MovedDown(pose, k, dy) == [pose EXCEPT ![k].y = @ + dy]

\* The poses one change away from a pose.
OneEdit(pose) ==
    {Remove(pose, k) : k \in 1..Len(pose)}
    \cup {WithScore(pose, k, ScoreThreshold) : k \in 1..Len(pose)}
    \cup {WithoutScore(pose, k) : k \in 1..Len(pose)}
    \cup {MovedDown(pose, k, dy) :
            k \in {i \in 1..Len(pose) : pose[i].name \in TorsoNames},
            dy \in {AngleTolerance - 1, AngleTolerance}}

\* The poses at most n changes away from a pose.
RECURSIVE Edited(_, _)
Edited(pose, n) ==
    IF n = 0 THEN {pose}
    ELSE LET E == Edited(pose, n - 1)
         IN  E \cup UNION {OneEdit(q) : q \in E}

\* People in a frame, at most.
MaxPoses == 2

\* A second person in the frame: level, with the right hip 30 lower, and
\* with no left hip.
Companions ==
    LET base == BasePose(100)
    IN  {base,
         MovedDown(base, find(base, "right_hip"), 30),
         Remove(base, find(base, "left_hip"))}

\* A person leaning: the right shoulder 19 lower, the left wrist at the
\* threshold, the right ankle without a score.
LeaningPose ==
    LET base == BasePose(0)
    IN  WithoutScore(
            WithScore(
                MovedDown(base, find(base, "right_shoulder"), AngleTolerance - 1),
                find(base, "left_wrist"), ScoreThreshold),
            find(base, "right_ankle"))

\* The scene of the component's life cycle: two people, one level and without
\* a left elbow, one with the right hip 30 lower.  (The rendering is checked
\* on DrawScenes.)
Scenes ==
    {<<Remove(BasePose(0), find(BasePose(0), "left_elbow")),
       MovedDown(BasePose(100), find(BasePose(100), "right_hip"), 30)>>}

\* The scenes the rendering is checked on.
DrawScenes ==
    LET alone == Edited(BasePose(0), MaxEdits) \cup Edited(LeaningPose, MaxEdits)
        paired == Edited(BasePose(0), MaxEdits - 1)
                      \cup Edited(LeaningPose, MaxEdits - 1)
    IN  {<<>>} \cup {<<p>> : p \in alone}
        \cup {<<p, c>> : p \in paired, c \in Companions}
        \cup {<<c, p>> : p \in paired, c \in Companions}

----------------------------------------------------------------------------
(* handleError: the message chosen for an error, by its name *)

\* handleError with the NotFoundError branch giving the text of the
\* NotAllowedError branch.
handleError_SharedText(name) ==
    IF name = "NotAllowedError" THEN NotAllowedMsg
    ELSE IF name = "NotFoundError" THEN NotAllowedMsg
    ELSE IF name = "AbortError" THEN AbortMsg
    ELSE IF name = "NotReadableError" THEN NotReadableMsg
    ELSE IF name = "OverconstrainedError" THEN OverconstrainedMsg
    ELSE IF name = "SecurityError" THEN SecurityMsg
    ELSE GenericCameraMsg

handleError(name) ==
    IF name = "NotAllowedError" THEN NotAllowedMsg
    ELSE IF name = "NotFoundError" THEN NotFoundMsg
    ELSE IF name = "AbortError" THEN AbortMsg
    ELSE IF name = "NotReadableError" THEN NotReadableMsg
    ELSE IF name = "OverconstrainedError" THEN OverconstrainedMsg
    ELSE IF name = "SecurityError" THEN SecurityMsg
    ELSE GenericCameraMsg

----------------------------------------------------------------------------
(* What the component renders *)

\* {error && (<div> ... <Button onClick={retry}>Retry</Button></div>)}
RetryPresent == mounted /\ error # NoError

\* <video style={{ ..., display: error ? 'none' : 'block' }} />
VideoShown == mounted /\ error = NoError

\* <canvas ref={canvasRef} style={{ position: 'absolute', top: 0, left: 0 }} />
CanvasShown == mounted

----------------------------------------------------------------------------
Init ==
    /\ mounted = TRUE
    /\ error = NoError
    /\ pc = "query"          \* the effect has called navigator.permissions.query
    /\ lastStep = "mount"
    /\ lastErr = "none"
    /\ readyState = 0
    /\ videoWidth = 0
    /\ canvasWidth = 300     \* the width of a canvas that was never sized
    /\ ctxTransform = Identity
    /\ ctxStack = <<>>
    /\ estimating = 0
    /\ rafQueue = 0
    /\ probeTracks = <<>>
    /\ streams = <<>>
    /\ srcObject = 0
    /\ retries = 0
    /\ poses \in Scenes
    /\ canvas = <<>>

----------------------------------------------------------------------------
(* The permission check of the effect *)

\* permissions.query resolved with permissionStatus.state = st.
PermissionResolved(st) ==
    /\ pc = "query"
    /\ lastStep' = "permission:" \o st
    /\ IF st = "granted" THEN /\ pc' = "setBackend"      \* loadModel()
                              /\ error' = error
       ELSE IF st = "prompt" THEN /\ pc' = "probe"       \* getUserMedia(...)
                                  /\ error' = error
       ELSE /\ pc' = "halted"
            /\ error' = PermissionDeniedMsg
    /\ UNCHANGED <<mounted, lastErr, retries>>
    /\ UNCHANGED <<videoVars, ctxVars, loopVars, streamVars>>
    /\ UNCHANGED drawVars

\* permissions.query rejected: the .catch of the effect.
PermissionRejected ==
    /\ pc = "query"
    /\ pc' = "halted"
    /\ error' = PermissionCheckMsg
    /\ lastStep' = "permissionRejected"
    /\ UNCHANGED <<mounted, lastErr, retries>>
    /\ UNCHANGED <<videoVars, ctxVars, loopVars, streamVars>>
    /\ UNCHANGED drawVars

\* The browser grants the probing getUserMedia: a live stream of n tracks.
ProbeGranted(n) ==
    /\ pc = "probe"
    /\ pc' = "probeThen"
    /\ probeTracks' = Tracks(n, "live")
    /\ lastStep' = "probeGranted"
    /\ UNCHANGED <<mounted, error, lastErr, retries, streams, srcObject>>
    /\ UNCHANGED <<videoVars, ctxVars, loopVars>>
    /\ UNCHANGED drawVars

\* ProbeThen without the track.stop() calls.
ProbeThen_NoStop ==
    /\ pc = "probeThen"
    /\ pc' = "setBackend"
    /\ lastStep' = "probeThen"
    /\ UNCHANGED <<mounted, error, lastErr, retries, streamVars>>
    /\ UNCHANGED <<videoVars, ctxVars, loopVars>>
    /\ UNCHANGED drawVars

\* The fulfilment callback of the probing request: stop the tracks, loadModel().
ProbeThen ==
    /\ pc = "probeThen"
    /\ probeTracks' = StopAll(probeTracks)
    /\ pc' = "setBackend"
    /\ lastStep' = "probeThen"
    /\ UNCHANGED <<mounted, error, lastErr, retries, streams, srcObject>>
    /\ UNCHANGED <<videoVars, ctxVars, loopVars>>
    /\ UNCHANGED drawVars

\* The rejection callback of the probing request: (err) => handleError(err).
ProbeRejected(name) ==
    /\ pc = "probe"
    /\ pc' = "halted"
    /\ error' = handleError(name)
    /\ lastErr' = name
    /\ lastStep' = "probeRejected"
    /\ UNCHANGED <<mounted, retries>>
    /\ UNCHANGED <<videoVars, ctxVars, loopVars, streamVars>>
    /\ UNCHANGED drawVars

----------------------------------------------------------------------------
(* loadModel *)

\* await tf.setBackend('webgl') resolved.
SetBackendResolved ==
    /\ pc = "setBackend"
    /\ pc' = "ready"
    /\ lastStep' = "setBackend"
    /\ UNCHANGED <<mounted, error, lastErr, retries>>
    /\ UNCHANGED <<videoVars, ctxVars, loopVars, streamVars>>
    /\ UNCHANGED drawVars

\* await tf.ready() resolved; createDetector is called.
ReadyResolved ==
    /\ pc = "ready"
    /\ pc' = "createDetector"
    /\ lastStep' = "ready"
    /\ UNCHANGED <<mounted, error, lastErr, retries>>
    /\ UNCHANGED <<videoVars, ctxVars, loopVars, streamVars>>
    /\ UNCHANGED drawVars

\* ModelLoadRejected with a catch that only logs (no setError).
ModelLoadRejected_OnlyLogged ==
    /\ pc \in {"setBackend", "ready", "createDetector"}
    /\ pc' = "halted"
    /\ lastStep' = "modelLoadRejected"
    /\ UNCHANGED <<mounted, error, lastErr, retries>>
    /\ UNCHANGED <<videoVars, ctxVars, loopVars, streamVars>>
    /\ UNCHANGED drawVars

\* One of the three awaits of loadModel rejected: its catch.
ModelLoadRejected ==
    /\ pc \in {"setBackend", "ready", "createDetector"}
    /\ pc' = "halted"
    /\ error' = ModelLoadMsg
    /\ lastStep' = "modelLoadRejected"
    /\ UNCHANGED <<mounted, lastErr, retries>>
    /\ UNCHANGED <<videoVars, ctxVars, loopVars, streamVars>>
    /\ UNCHANGED drawVars

\* createDetector resolved: startVideoStream(detector) runs up to its first
\* await.  ctxOk: canvas.getContext('2d') returned a context.
CreateDetectorResolved(ctxOk) ==
    /\ pc = "createDetector"
    /\ lastStep' = "createDetector"
    /\ IF ~mounted
       THEN \* videoRef.current / canvasRef.current are null: nothing happens
            /\ pc' = "ended"
            /\ UNCHANGED <<error, lastErr>>
       ELSE IF ~ctxOk
       THEN \* handleError(new Error('Failed to get canvas context')); return
            /\ pc' = "halted"
            /\ error' = handleError("Error")
            /\ lastErr' = "Error"
       ELSE \* getUserMedia({ video: true }) is called
            /\ pc' = "getUserMedia"
            /\ UNCHANGED <<error, lastErr>>
    /\ UNCHANGED <<mounted, retries>>
    /\ UNCHANGED <<videoVars, ctxVars, loopVars, streamVars>>
    /\ UNCHANGED drawVars

----------------------------------------------------------------------------
(* detectPose: one tick of the frame loop *)

\* detectPose with requestAnimationFrame(detectPose) placed before the await.
detectPose_RequestFirst(q) ==
    IF readyState = HAVE_ENOUGH_DATA
    THEN /\ rafQueue' = q + 1
         /\ canvasWidth' = videoWidth
         /\ ctxStack' = <<Identity>>
         /\ ctxTransform' = Translate(Scale(Identity), 0 - videoWidth)
         /\ canvas' = <<>>
         /\ estimating' = estimating + 1
    ELSE /\ rafQueue' = q
         /\ UNCHANGED <<ctxVars, estimating, canvas>>

\* detectPose up to its await.  q: the animation-frame callbacks still queued
\* once this call has been taken off the queue.
detectPose(q) ==
    /\ rafQueue' = q
    /\ IF readyState = HAVE_ENOUGH_DATA
       THEN \* canvas.width = video.videoWidth resets the context and blanks
            \* the canvas; then save(), scale(-1, 1),
            \* translate(-canvas.width, 0), and detector.estimatePoses(video)
            \* is called
            /\ canvasWidth' = videoWidth
            /\ ctxStack' = <<Identity>>
            /\ ctxTransform' = Translate(Scale(Identity), 0 - videoWidth)
            /\ canvas' = <<>>
            /\ estimating' = estimating + 1
       ELSE \* the body is skipped: the call returns
            /\ UNCHANGED <<ctxVars, estimating, canvas>>

\* ctx.restore(): pop the saved state, if there is one.
Restore ==
    IF ctxStack = <<>>
    THEN UNCHANGED <<ctxTransform, ctxStack>>
    ELSE /\ ctxTransform' = ctxStack[Len(ctxStack)]
         /\ ctxStack' = SubSeq(ctxStack, 1, Len(ctxStack) - 1)

\* detectPoseDraw without ctx.restore().
detectPoseDraw_NoRestore ==
    /\ estimating > 0
    /\ estimating' = estimating - 1
    /\ rafQueue' = rafQueue + 1
    /\ lastStep' = "tickDrawn"
    /\ UNCHANGED <<mounted, error, pc, lastErr, retries>>
    /\ UNCHANGED <<videoVars, ctxVars, streamVars>>
    /\ canvas' = DrawPoses(poses)
    /\ UNCHANGED poses

\* estimatePoses resolved: detectPose from clearRect to its end: the poses
\* are drawn, the context is restored and the next tick is requested.
detectPoseDraw ==
    /\ estimating > 0
    /\ estimating' = estimating - 1
    /\ Restore
    /\ rafQueue' = rafQueue + 1
    /\ lastStep' = "tickDrawn"
    /\ UNCHANGED <<mounted, error, pc, lastErr, retries, canvasWidth>>
    /\ UNCHANGED <<videoVars, streamVars>>
    /\ canvas' = DrawPoses(poses)
    /\ UNCHANGED poses

\* EstimateRejected with a try/catch in detectPose that reports the error.
EstimateRejected_Reported ==
    /\ estimating > 0
    /\ estimating' = estimating - 1
    /\ error' = handleError("Error")
    /\ lastStep' = "tickThrew"
    /\ UNCHANGED <<mounted, pc, lastErr, retries, rafQueue>>
    /\ UNCHANGED <<videoVars, ctxVars, streamVars>>
    /\ UNCHANGED drawVars

\* estimatePoses rejected: nothing in detectPose catches it, and the promise
\* detectPose returned is held by nobody.
EstimateRejected ==
    /\ estimating > 0
    /\ estimating' = estimating - 1
    /\ lastStep' = "tickThrew"
    /\ UNCHANGED <<mounted, error, pc, lastErr, retries, rafQueue>>
    /\ UNCHANGED <<videoVars, ctxVars, streamVars>>
    /\ UNCHANGED drawVars

\* estimatePoses resolved and the drawing threw at the i-th pose (say, a pose
\* without keypoints): the poses before it are painted, restore() and
\* requestAnimationFrame are not reached, and nothing catches the error.
DrawThrew(i) ==
    /\ estimating > 0
    /\ i \in 1..Len(poses)
    /\ estimating' = estimating - 1
    /\ canvas' = DrawPoses(SubSeq(poses, 1, i - 1))
    /\ lastStep' = "drawThrew"
    /\ UNCHANGED <<mounted, error, pc, lastErr, retries, rafQueue, poses>>
    /\ UNCHANGED <<videoVars, ctxVars, streamVars>>

\* The browser runs a queued animation-frame callback.
AnimationFrame ==
    /\ rafQueue > 0
    /\ detectPose(rafQueue - 1)
    /\ lastStep' = IF readyState = HAVE_ENOUGH_DATA THEN "tick" ELSE "tickSkipped"
    /\ UNCHANGED <<mounted, error, pc, lastErr, retries>>
    /\ UNCHANGED <<videoVars, streamVars>>
    /\ UNCHANGED poses

----------------------------------------------------------------------------
(* startVideoStream, from its first await on *)

\* getUserMedia resolved with a stream of n tracks: video.srcObject = stream,
\* and video.play() is called.
GetUserMediaResolved(n) ==
    /\ pc = "getUserMedia"
    /\ streams' = Append(streams, Tracks(n, "live"))
    /\ srcObject' = Len(streams) + 1
    /\ pc' = "play"
    /\ lastStep' = "getUserMedia"
    /\ UNCHANGED <<mounted, error, lastErr, retries, probeTracks>>
    /\ UNCHANGED <<videoVars, ctxVars, loopVars>>
    /\ UNCHANGED drawVars

\* getUserMedia rejected: catch (error) { handleError(error) }.
GetUserMediaRejected(name) ==
    /\ pc = "getUserMedia"
    /\ pc' = "halted"
    /\ error' = handleError(name)
    /\ lastErr' = name
    /\ lastStep' = "getUserMediaRejected"
    /\ UNCHANGED <<mounted, retries>>
    /\ UNCHANGED <<videoVars, ctxVars, loopVars, streamVars>>
    /\ UNCHANGED drawVars

\* video.play() resolved (the element has data for the current position and
\* beyond): detectPose() is called for the first time.
PlayResolved ==
    /\ pc = "play"
    /\ readyState >= 3
    /\ pc' = "started"
    /\ detectPose(rafQueue)
    /\ lastStep' = IF readyState = HAVE_ENOUGH_DATA THEN "firstTick" ELSE "firstTickSkipped"
    /\ UNCHANGED <<mounted, error, lastErr, retries>>
    /\ UNCHANGED <<videoVars, streamVars>>
    /\ UNCHANGED poses

\* PlayRejected with the try/catch around play() alone: the error is
\* reported and startVideoStream goes on to call detectPose().
PlayRejected_GoesOn(name) ==
    /\ pc = "play"
    /\ pc' = "started"
    /\ error' = handleError(name)
    /\ lastErr' = name
    /\ detectPose(rafQueue)
    /\ lastStep' = "playRejected"
    /\ UNCHANGED <<mounted, retries>>
    /\ UNCHANGED <<videoVars, streamVars>>
    /\ UNCHANGED poses

\* video.play() rejected: catch (error) { handleError(error) }.
PlayRejected(name) ==
    /\ pc = "play"
    /\ pc' = "halted"
    /\ error' = handleError(name)
    /\ lastErr' = name
    /\ lastStep' = "playRejected"
    /\ UNCHANGED <<mounted, retries>>
    /\ UNCHANGED <<videoVars, ctxVars, loopVars, streamVars>>
    /\ UNCHANGED drawVars

----------------------------------------------------------------------------
(* The user and the browser *)

\* retry without setError(null).
retry_KeepsError ==
    /\ RetryPresent
    /\ retries < MaxRetries
    /\ retries' = retries + 1
    /\ pc' = "setBackend"
    /\ lastStep' = "retry"
    /\ UNCHANGED <<mounted, error, lastErr>>
    /\ UNCHANGED <<videoVars, ctxVars, loopVars, streamVars>>
    /\ UNCHANGED drawVars

\* retry with the button rendered whether or not there is an error.
retry_AlwaysPresent ==
    /\ mounted
    /\ retries < MaxRetries
    /\ retries' = retries + 1
    /\ error' = NoError
    /\ pc' = "setBackend"
    /\ lastStep' = "retry"
    /\ UNCHANGED <<mounted, lastErr>>
    /\ UNCHANGED <<videoVars, ctxVars, loopVars, streamVars>>
    /\ UNCHANGED drawVars

\* retry: setError(null); loadModel().  The button exists while an error is
\* rendered.
retry ==
    /\ RetryPresent
    /\ retries < MaxRetries
    /\ retries' = retries + 1
    /\ error' = NoError
    /\ pc' = "setBackend"
    /\ lastStep' = "retry"
    /\ UNCHANGED <<mounted, lastErr>>
    /\ UNCHANGED <<videoVars, ctxVars, loopVars, streamVars>>
    /\ UNCHANGED drawVars

\* The component is unmounted.  The effect returns no cleanup function, so
\* nothing of the component runs on unmount; the refs become null.
Unmount ==
    /\ mounted
    /\ mounted' = FALSE
    /\ lastStep' = "unmount"
    /\ UNCHANGED <<error, pc, lastErr, retries>>
    /\ UNCHANGED <<videoVars, ctxVars, loopVars, streamVars>>
    /\ UNCHANGED drawVars

\* The video element with a stream attached changes its readyState and its
\* frame size.
VideoChange(rs, w) ==
    /\ srcObject # 0
    /\ readyState' = rs
    /\ videoWidth' = w
    /\ <<rs, w>> # <<readyState, videoWidth>>
    /\ lastStep' = "videoChange"
    /\ UNCHANGED <<mounted, error, pc, lastErr, retries>>
    /\ UNCHANGED <<ctxVars, loopVars, streamVars>>
    /\ UNCHANGED drawVars

----------------------------------------------------------------------------
Next ==
    \/ \E st \in PermissionStates : PermissionResolved(st)
    \/ PermissionRejected
    \/ \E n \in 1..MaxTracks : ProbeGranted(n)
    \/ ProbeThen
    \/ \E name \in ErrorNames : ProbeRejected(name)
    \/ SetBackendResolved
    \/ ReadyResolved
    \/ ModelLoadRejected
    \/ \E ctxOk \in BOOLEAN : CreateDetectorResolved(ctxOk)
    \/ \E n \in 1..MaxTracks : GetUserMediaResolved(n)
    \/ \E name \in ErrorNames : GetUserMediaRejected(name)
    \/ PlayResolved
    \/ \E name \in ErrorNames : PlayRejected(name)
    \/ AnimationFrame
    \/ detectPoseDraw
    \/ EstimateRejected
    \/ \E i \in 1..MaxPoses : DrawThrew(i)
    \/ retry
    \/ Unmount
    \/ \E rs \in ReadyStates, w \in VideoWidths : VideoChange(rs, w)

Spec == Init /\ [][Next]_vars


\* A loop just started: permission was granted, the model loaded, a stream
\* of one track is playing, and the first tick is waiting for the estimator.
LoopRunning ==
    /\ mounted = TRUE
    /\ error = NoError
    /\ pc = "started"
    /\ lastStep = "firstTick"
    /\ lastErr = "none"
    /\ readyState = HAVE_ENOUGH_DATA
    /\ videoWidth = 3
    /\ canvasWidth = 3
    /\ ctxTransform = Mirror(3)
    /\ ctxStack = <<Identity>>
    /\ estimating = 1
    /\ rafQueue = 0
    /\ probeTracks = <<>>
    /\ streams = <<Tracks(1, "live")>>
    /\ srcObject = 1
    /\ retries = 0
    /\ canvas = <<>>

InitDraw == LoopRunning /\ poses \in DrawScenes

\* The people filmed change between two frames.
SceneChange(scene) ==
    /\ poses # scene
    /\ poses' = scene
    /\ lastStep' = "sceneChange"
    /\ UNCHANGED <<mounted, error, pc, lastErr, retries, canvas>>
    /\ UNCHANGED <<videoVars, ctxVars, loopVars, streamVars>>

NextDraw ==
    \/ detectPoseDraw
    \/ AnimationFrame
    \/ \E scene \in Scenes \cup {<<c>> : c \in Companions} : SceneChange(scene)

\* The rendering on its own: the estimator resolves with any of the rendering
\* scenes, and the loop goes on while the scene changes.
SpecDraw == InitDraw /\ [][NextDraw]_vars

\* The loop on its own, from its start on.
InitLoop == LoopRunning /\ poses \in Scenes

NextLoop ==
    \/ AnimationFrame
    \/ detectPoseDraw
    \/ EstimateRejected
    \/ \E i \in 1..MaxPoses : DrawThrew(i)
    \/ Unmount
    \/ \E rs \in ReadyStates, w \in VideoWidths : VideoChange(rs, w)

\* The browser runs every queued animation-frame callback, and the
\* continuation of a settled estimatePoses promise is run.
FairLoop ==
    /\ InitLoop
    /\ [][NextLoop]_vars
    /\ WF_vars(AnimationFrame)
    /\ WF_vars(detectPoseDraw)

TypeOK ==
    /\ mounted \in BOOLEAN
    /\ pc \in {"query", "probe", "probeThen", "setBackend", "ready",
               "createDetector", "getUserMedia", "play", "started",
               "halted", "ended"}
    /\ readyState \in ReadyStates
    /\ estimating \in Nat
    /\ rafQueue \in Nat
    /\ srcObject \in 0..Len(streams)
    /\ retries \in 0..MaxRetries

----------------------------------------------------------------------------
(* Vocabulary of the properties *)

\* The error banner is on screen.
ErrorDisplayed == mounted /\ error # NoError

\* Positions of a run inside loadModel / startVideoStream.
LoadingPcs == {"setBackend", "ready", "createDetector"}
CapturePcs == {"getUserMedia", "play"}

\* The steps in which handleError ran on a rejected getUserMedia / play.
CaptureRejections == {"probeRejected", "getUserMediaRejected", "playRejected"}

\* The step was a failure of model loading or of capture.
LoadOrCaptureFailure ==
    \/ lastStep \in {"modelLoadRejected", "getUserMediaRejected", "playRejected"}
    \/ lastStep = "createDetector" /\ pc = "halted"

\* No tick is running or queued.
LoopIdle == estimating = 0 /\ rafQueue = 0

\* The order in which a run started by loadModel() moves on.
RunOrder ==
    {<<"halted", "setBackend">>, <<"setBackend", "ready">>,
     <<"ready", "createDetector">>, <<"createDetector", "getUserMedia">>,
     <<"getUserMedia", "play">>, <<"play", "started">>,
     <<"createDetector", "ended">>}
    \cup ((LoadingPcs \cup CapturePcs) \X {"halted"})

----------------------------------------------------------------------------
(* Properties *)

\* C1 (as claimed): a tick that finds the video not ready (readyState is not
\* HAVE_ENOUGH_DATA) draws nothing and leaves the next tick requested.
C1_SkippedTickRequestsNext ==
    lastStep \in {"tickSkipped", "firstTickSkipped"} =>
        /\ estimating = 0
        /\ rafQueue >= 1

\* C2: while an error message is displayed the run is over and no tick is
\* running or queued; and as long as the message stays, no permission query,
\* stream acquisition, model load or tick is started (only Retry, which clears
\* the message, starts anything).
C2_ErrorHalts ==
    /\ [](ErrorDisplayed => pc = "halted" /\ LoopIdle)
    /\ [][(ErrorDisplayed /\ error' # NoError) =>
            /\ pc' = pc
            /\ UNCHANGED <<loopVars, streamVars>>]_vars

C2_Witness ==
    /\ ErrorDisplayed
    /\ lastStep = "playRejected"
    /\ srcObject # 0

\* C3 (as claimed): Retry clears the error text and starts again at the
\* camera-permission check.
C3_RetryStartsAtPermissionCheck ==
    lastStep = "retry" => error = NoError /\ pc = "query"

\* C3 (amended): Retry clears the error text and starts loadModel at its first
\* step whichever error preceded it; the run it starts goes through model
\* load, then capture, then the start of the loop, and never through the
\* permission check.
C3_RetryStartsModelLoad ==
    [][/\ lastStep' = "retry" => error' = NoError /\ pc' = "setBackend" /\ LoopIdle'
       /\ (retries' >= 1 /\ pc' # pc) => <<pc, pc'>> \in RunOrder]_vars

C3_Witness ==
    /\ retries >= 1
    /\ pc = "started"
    /\ estimating = 1
    /\ error = NoError

\* C4: a failure of model loading (setBackend, ready, createDetector) or of
\* capture (getUserMedia, play, no canvas context) leaves a non-null error
\* message, the run over and no tick running or queued.
C4_FailuresReachError ==
    LoadOrCaptureFailure => error # NoError /\ pc = "halted" /\ LoopIdle

C4_Witness ==
    /\ lastStep = "createDetector"
    /\ pc = "halted"
    /\ error = GenericCameraMsg

\* C5: handleError gives the six named errors six different texts, none of
\* them the generic text or the permission-denied text of the effect; every
\* other name gets the generic text; and that text is what the error state
\* holds after a rejected capture request.
C5_MessagesDistinct ==
    /\ \A m, n \in NamedErrors : m # n => handleError(m) # handleError(n)
    /\ \A n \in NamedErrors :
           handleError(n) \notin {GenericCameraMsg, PermissionDeniedMsg}
    /\ \A n \in ErrorNames \ NamedErrors : handleError(n) = GenericCameraMsg
    /\ lastStep \in CaptureRejections =>
           /\ error = handleError(lastErr)
           /\ lastErr \in NamedErrors <=> error # GenericCameraMsg

C5_Witness ==
    /\ lastStep = "getUserMediaRejected"
    /\ lastErr = "NotFoundError"
    /\ error = NotFoundMsg

\* C6 (as claimed): once the permission query resolved to denied, the error
\* text is the denial message, Retry is present and neither the video nor the
\* canvas is shown.
C6_DeniedHidesVideoAndCanvas ==
    lastStep = "permission:denied" =>
        /\ error = PermissionDeniedMsg
        /\ RetryPresent
        /\ ~VideoShown
        /\ ~CanvasShown

\* C7: when the probing request of the prompt state succeeded, every track of
\* its stream is stopped whenever model loading or capture is under way; when
\* it failed, the error text is handleError's and the run is over.
C7_ProbeStoppedBeforeLoad ==
    /\ pc \in LoadingPcs \cup CapturePcs \cup {"started"} => AllEnded(probeTracks)
    /\ lastStep = "probeRejected" => error = handleError(lastErr) /\ pc = "halted"

C7_Witness ==
    /\ lastStep = "probeThen"
    /\ pc = "setBackend"
    /\ Len(probeTracks) >= 2
    /\ AllEnded(probeTracks)

\* C8: at most one estimatePoses call is in flight, a tick is never queued
\* while one runs, and an estimation begins only when the one before has
\* drawn and restored the context.
C8_TicksDoNotOverlap ==
    /\ [](estimating + rafQueue <= 1)
    /\ [][estimating' > estimating =>
            /\ estimating = 0
            /\ ctxTransform = Identity
            /\ ctxStack = <<>>]_vars

C8_Witness ==
    /\ lastStep = "tick"
    /\ estimating = 1
    /\ rafQueue = 0

\* C9 (as claimed): after the component is torn down no tick is running or
\* queued and every track of every capture stream is stopped.
C9_TeardownStopsLoop ==
    ~mounted =>
        /\ LoopIdle
        /\ \A i \in 1..Len(streams) : AllEnded(streams[i])

\* C10: when a tick is about to start the context carries no transform and no
\* saved state of an earlier tick; while a tick waits for the estimator and
\* draws, the transform is exactly one mirror of the canvas.
C10_MirrorNeverCompounds ==
    /\ (estimating = 0 /\ rafQueue > 0) =>
           ctxTransform = Identity /\ ctxStack = <<>>
    /\ estimating > 0 =>
           ctxTransform = Mirror(canvasWidth) /\ ctxStack = <<Identity>>

C10_Witness ==
    /\ lastStep = "tick"
    /\ estimating = 1
    /\ ctxTransform = Mirror(canvasWidth)
    /\ canvasWidth = 3

----------------------------------------------------------------------------
(* Vocabulary of the rendering properties *)

\* The tick has just painted `poses` on the canvas.
Painted == lastStep = "tickDrawn"

\* The pose has a keypoint of that name.
Has(pose, name) == \E i \in 1..Len(pose) : pose[i].name = name

\* The y of the keypoint of that name.
YOf(pose, name) == pose[CHOOSE i \in 1..Len(pose) : pose[i].name = name].y

\* The four torso keypoints are there, the shoulders less than 20 apart in y
\* and the hips less than 20 apart in y.
Level(pose) ==
    /\ \A n \in TorsoNames : Has(pose, n)
    /\ YOf(pose, "left_shoulder") - YOf(pose, "right_shoulder") \in -19..19
    /\ YOf(pose, "left_hip") - YOf(pose, "right_hip") \in -19..19

\* The keypoint has a confidence, and it is above 0.5.
Above(kp) == "score" \in DOMAIN kp /\ kp.score >= 51

\* The drawing calls of the canvas of one shape.
Painting(shape) == {canvas[j] : j \in {i \in 1..Len(canvas) : canvas[i].shape = shape}}

\* A dot is painted on the keypoint.
DotOn(kp) == \E d \in Painting("dot") : d.x = kp.x /\ d.y = kp.y

\* A line is painted from one keypoint to the other.
LineOn(from, to) ==
    \E l \in Painting("line") :
        l.x = from.x /\ l.y = from.y /\ l.toX = to.x /\ l.toY = to.y

\* The lines the rendering gives a pose, by their ends.
LinesOf(pose) ==
    LET ls == DrawLines(pose, "red")
    IN  {<<ls[j].x, ls[j].toX>> : j \in 1..Len(ls)}

\* The pose with its k-th keypoint taken away, or its confidence at 0.5.
Weakened(pose, k) == {Remove(pose, k), WithScore(pose, k, ScoreThreshold)}

----------------------------------------------------------------------------
(* Rendering properties (checked under SpecDraw) *)

\* C11: the verdict of isPerfectAngle is true exactly for a pose that has the
\* four torso keypoints with both y differences strictly below 20: a missing
\* keypoint gives false, and so does a difference of exactly 20.
C11_VerdictIffLevel ==
    \A i \in 1..Len(poses) :
        LET pose == poses[i]
        IN  /\ isPerfectAngle(pose) <=> Level(pose)
            /\ (\E n \in TorsoNames : ~Has(pose, n)) => ~isPerfectAngle(pose)
            /\ ( /\ \A n \in TorsoNames : Has(pose, n)
                 /\ \/ Abs(YOf(pose, "left_shoulder") - YOf(pose, "right_shoulder")) = 20
                    \/ Abs(YOf(pose, "left_hip") - YOf(pose, "right_hip")) = 20 )
               => ~isPerfectAngle(pose)

C11_Witness ==
    /\ Painted
    /\ Len(poses) = 1
    /\ \A n \in TorsoNames : Has(poses[1], n)
    /\ Abs(YOf(poses[1], "left_shoulder") - YOf(poses[1], "right_shoulder")) = 19
    /\ Abs(YOf(poses[1], "left_hip") - YOf(poses[1], "right_hip")) = 20
    /\ ~isPerfectAngle(poses[1])

\* C12: once a tick has painted, a dot is on a keypoint of a returned pose
\* exactly when the keypoint has a confidence above 0.5 (not at 0.5, not
\* without one), and every dot is on such a keypoint.
C12_DotIffConfident ==
    Painted =>
        /\ \A i \in 1..Len(poses) : \A k \in 1..Len(poses[i]) :
               DotOn(poses[i][k]) <=> Above(poses[i][k])
        /\ \A d \in Painting("dot") :
               \E i \in 1..Len(poses) : \E k \in 1..Len(poses[i]) :
                   /\ d.x = poses[i][k].x
                   /\ d.y = poses[i][k].y
                   /\ Above(poses[i][k])

C12_Witness ==
    /\ Painted
    /\ Len(poses) = 1
    /\ \E k \in 1..Len(poses[1]) :
           /\ "score" \in DOMAIN poses[1][k]
           /\ poses[1][k].score = 50
           /\ ~DotOn(poses[1][k])
    /\ \E k \in 1..Len(poses[1]) :
           /\ "score" \notin DOMAIN poses[1][k]
           /\ ~DotOn(poses[1][k])
    /\ \E k \in 1..Len(poses[1]) : DotOn(poses[1][k])

\* C13: once a tick has painted, a line joins the two keypoints of a
\* configured pair exactly when the pose has both and both have a confidence
\* above 0.5; and taking a keypoint away, or its confidence down to 0.5 or
\* away, removes the lines that end on it and no other line.
C13_LineIffBothConfident ==
    /\ Painted =>
           \A i \in 1..Len(poses) : \A e \in 1..Len(keypointPairs) :
               LET pose == poses[i]
                   from == find(pose, keypointPairs[e][1])
                   to == find(pose, keypointPairs[e][2])
               IN  IF from # 0 /\ to # 0
                   THEN LineOn(pose[from], pose[to])
                            <=> (Above(pose[from]) /\ Above(pose[to]))
                   ELSE \A a, b \in 1..Len(pose) :
                            (/\ pose[a].name = keypointPairs[e][1]
                             /\ pose[b].name = keypointPairs[e][2])
                            => ~LineOn(pose[a], pose[b])
    /\ Painted => Cardinality(Painting("line")) =
                      Cardinality(UNION {LinesOf(poses[i]) : i \in 1..Len(poses)})
    /\ Painted =>
           \A i \in 1..Len(poses) :
               LET lines == LinesOf(poses[i])
               IN  \A k \in 1..Len(poses[i]) :
                       \A weaker \in Weakened(poses[i], k) :
                           LinesOf(weaker) =
                               {l \in lines :
                                    l[1] # poses[i][k].x /\ l[2] # poses[i][k].x}

C13_Witness ==
    /\ Painted
    /\ Len(poses) = 1
    /\ find(poses[1], "left_elbow") = 0
    /\ find(poses[1], "right_ankle") # 0
    /\ ~Above(poses[1][find(poses[1], "right_ankle")])
    /\ Cardinality(Painting("line")) = 7

\* C14: once a tick has painted, every dot and line of a pose is green if that
\* pose is level and red if not; and a pose is painted the same whoever
\* else is in the frame, before it or after it.
C14_ColorPerPose ==
    /\ Painted =>
           \A j \in 1..Len(canvas) :
               \E i \in 1..Len(poses) :
                   /\ \E k \in 1..Len(poses[i]) : poses[i][k].x = canvas[j].x
                   /\ canvas[j].color = IF Level(poses[i]) THEN "green" ELSE "red"
    /\ Painted => \A i \in 1..Len(poses) : \A c \in Companions :
           LET alone == DrawPoses(<<poses[i]>>)
               before == DrawPoses(<<poses[i], c>>)
               after == DrawPoses(<<c, poses[i]>>)
           IN  /\ SubSeq(before, 1, Len(alone)) = alone
               /\ SubSeq(after, Len(after) - Len(alone) + 1, Len(after)) = alone

C14_Witness ==
    /\ Painted
    /\ Len(poses) = 2
    /\ Level(poses[2])
    /\ ~Level(poses[1])
    /\ \E j \in 1..Len(canvas) : canvas[j].color = "green"
    /\ \E j \in 1..Len(canvas) : canvas[j].color = "red"

----------------------------------------------------------------------------
(* Properties of the loop and of the streams *)

\* The loop was started and has come to a stop: no estimation in flight, no
\* callback queued.
LoopStopped == pc = "started" /\ LoopIdle

\* The canvas still has the width it was created with: no tick ever ran its
\* body.
NeverSized == canvasWidth = 300

\* The streams whose tracks are not all stopped.
LiveStreams ==
    Cardinality({i \in 1..Len(streams) : ~AllEnded(streams[i])})
    + (IF AllEnded(probeTracks) THEN 0 ELSE 1)

\* C15: when estimatePoses rejects or the drawing throws inside a tick, no
\* further tick is requested, the error state stays as it was (null: no
\* message, no Retry), and from then on the loop stays stopped.
C15_TickErrorStopsSilently ==
    [][/\ lastStep' \in {"tickThrew", "drawThrew"} =>
              /\ LoopIdle'
              /\ rafQueue' = rafQueue
              /\ error' = error
              /\ error' = NoError
              /\ ~RetryPresent'
       /\ LoopStopped => LoopStopped' /\ error' = NoError]_vars

C15_Witness ==
    /\ lastStep = "drawThrew"
    /\ LoopStopped
    /\ mounted
    /\ ctxStack # <<>>
    /\ canvas # <<>>

\* C16 (as claimed): under fair scheduling, every tick that has drawn is
\* followed by the start of another tick, unless the component is torn down
\* or a tick throws.
C16_TicksRecur ==
    [](lastStep = "tickDrawn" =>
          <>(\/ lastStep = "tick"
             \/ lastStep \in {"tickThrew", "drawThrew"}
             \/ ~mounted))

\* C17 (as claimed): at most one stream has tracks that are not stopped.
C17_AtMostOneLiveStream == LiveStreams <= 1

\* C18: Retry starts a run only while an error is displayed, when the run
\* before it is over and no tick is running or queued; an error is displayed
\* only when no run is in flight and no tick ever ran; and ticks run or wait
\* only once the one run that started the loop is over, one at a time.
C18_OneRunOneLoop ==
    /\ [](ErrorDisplayed => pc = "halted" /\ LoopIdle /\ NeverSized)
    /\ [](~LoopIdle => pc = "started" /\ error = NoError /\ estimating + rafQueue = 1)
    /\ [][lastStep' = "retry" =>
            /\ ErrorDisplayed
            /\ pc = "halted"
            /\ LoopIdle
            /\ NeverSized]_vars

C18_Witness ==
    /\ lastStep = "retry"
    /\ retries = 1
    /\ srcObject # 0
    /\ pc = "setBackend"

====
